---- MODULE Spec2Model ----
(***************************************************************************)
(* Model of src/python/mohu.py: the option matcher pick_option, the date   *)
(* extractor extract_dates and the four-request orchestrator               *)
(* fetch_garbage.                                                          *)
(*                                                                         *)
(* Strings are sequences of characters.  The characters are written as     *)
(* short names: "sp" is a blank, "en" the en-dash, "em" the em-dash.       *)
(* An HTML fragment is the pair of what the two CSS selections of the      *)
(* code see in it: its <option> elements and its <tr> elements, both in    *)
(* document order.                                                         *)
(***************************************************************************)
EXTENDS Integers, Sequences, FiniteSets, TLC

VARIABLES
    args,       \* the (district, street, house) triple fetch_garbage is called with
    pc,         \* position of the caller / of fetch_garbage
    session,    \* the requests.Session of the running call: "none", "open", "closed"
    log,        \* the HTTP exchanges of the running call, in order
    streets,    \* local of fetch_garbage: the streets fragment
    houses,     \* local of fetch_garbage: the house numbers fragment
    html3,      \* local of fetch_garbage: raw text of the search response
    returned,   \* outcome of every finished call of fetch_garbage, in order
    script,     \* what the site answered to each handler (unchanged site state)
    html,       \* argument of a direct call of pick_option
    label,      \* argument of a direct call of pick_option
    picked,     \* outcome of the direct call of pick_option
    text,       \* argument of a direct call of extract_dates
    dates       \* outcome of the direct call of extract_dates

vars == <<args, pc, session, log, streets, houses, html3, returned, script,
          html, label, picked, text, dates>>

pickVars == <<html, label, picked>>
extractVars == <<text, dates>>

----------------------------------------------------------------------------
(* Bounds *)

MaxOpts == 2
MaxRows == 3
MaxCalls == 2

----------------------------------------------------------------------------
(* Python values and string methods *)

\* None, as the value of an absent attribute
None == <<"None">>
\* a name not yet bound
Unbound == [json |-> "unbound"]
NotCalled == [kind |-> "not called"]
Whitespace == {"sp"}

\* str.lower(), one character
LowerChar(c) == IF c = "A" THEN "a" ELSE IF c = "B" THEN "b" ELSE c

\* str.lower()
lower(s) == [i \in 1..Len(s) |-> LowerChar(s[i])]

\* str.replace(old, new) for one-character old and new
replace(s, old, new) == [i \in 1..Len(s) |-> IF s[i] = old THEN new ELSE s[i]]

\* str.strip()
strip(s) ==
    LET keep == {i \in 1..Len(s) : s[i] \notin Whitespace}
    IN  IF keep = {} THEN <<>>
        ELSE LET first == CHOOSE i \in keep : \A j \in keep : i <= j
                 last  == CHOOSE i \in keep : \A j \in keep : j <= i
             IN  SubSeq(s, first, last)

\* the operator `sub in s` on strings
In(sub, s) ==
    \E k \in 0..(Len(s) - Len(sub)) : SubSeq(s, k + 1, k + Len(sub)) = sub

\* `a or b` on strings
Or(a, b) == IF a = None \/ a = <<>> THEN b ELSE a

EmptyHtml == [options |-> <<>>, rows |-> <<>>]

----------------------------------------------------------------------------
(* pick_option *)

norm_nostrip(s) == replace(replace(lower(s), "en", "-"), "em", "-")

\* line 73
norm(s) == strip(replace(replace(lower(s), "en", "-"), "em", "-"))

RECURSIVE pick_loop_nofallback(_, _, _, _)
pick_loop_nofallback(opts, lab, i, labs) ==
    IF i > Len(opts)
    THEN [kind |-> "RuntimeError", label |-> lab, labs |-> labs]
    ELSE LET v == strip(Or(opts[i].value, <<>>))
             l == strip(Or(opts[i].text, <<>>))
         IN  IF l = <<>>
             THEN pick_loop_nofallback(opts, lab, i + 1, labs)
             ELSE IF l = lab \/ lower(l) = lower(lab) \/ In(norm(lab), norm(l))
                  THEN [kind |-> "return", value |-> v]
                  ELSE pick_loop_nofallback(opts, lab, i + 1, Append(labs, <<v, l>>))

RECURSIVE pick_loop_eager(_, _, _, _)
pick_loop_eager(opts, lab, i, labs) ==
    IF i > Len(opts)
    THEN [kind |-> "RuntimeError", label |-> lab, labs |-> labs]
    ELSE LET v == strip(Or(opts[i].value, <<>>))
             l == strip(Or(opts[i].text, <<>>))
         IN  IF l = <<>>
             THEN pick_loop_eager(opts, lab, i + 1, Append(labs, <<v, l>>))
             ELSE IF l = lab \/ lower(l) = lower(lab) \/ In(norm(lab), norm(l))
                  THEN [kind |-> "return", value |-> Or(v, l)]
                  ELSE pick_loop_eager(opts, lab, i + 1, Append(labs, <<v, l>>))

\* lines 74-79: the loop over the options from option i on, labs being the
\* pairs collected so far
RECURSIVE pick_loop(_, _, _, _)
pick_loop(opts, lab, i, labs) ==
    IF i > Len(opts)
    THEN [kind |-> "RuntimeError", label |-> lab, labs |-> labs]
    ELSE LET v == strip(Or(opts[i].value, <<>>))
             l == strip(Or(opts[i].text, <<>>))
         IN  IF l = <<>>
             THEN pick_loop(opts, lab, i + 1, labs)
             ELSE IF l = lab \/ lower(l) = lower(lab) \/ In(norm(lab), norm(l))
                  THEN [kind |-> "return", value |-> Or(v, l)]
                  ELSE pick_loop(opts, lab, i + 1, Append(labs, <<v, l>>))

\* lines 72-79
pick_option(h, lab) == pick_loop(h.options, lab, 1, <<>>)

----------------------------------------------------------------------------
(* Direct calls of pick_option *)

\* raw texts of <option> elements
OptionTexts ==
    { <<>>, <<"sp">>, <<"a">>, <<"A">>, <<"sp", "a", "b", "sp">>,
      <<"a", "en", "b">>, <<"a", "em", "b">>, <<"a", "-", "b">>, <<"b">> }

\* value attributes of <option> elements (None: the attribute is absent)
OptionValues == { None, <<"sp">>, <<"1">>, <<"sp", "2">> }

Options == [value : OptionValues, text : OptionTexts]

Labels ==
    { <<>>, <<"sp">>, <<"a">>, <<"A">>, <<"b">>, <<"a", "b">>, <<"a", "-", "b">>,
      <<"a", "en", "b">>, <<"A", "-", "B">>, <<"sp", "a">>, <<"c">>, <<"-">> }

SeqsUpTo(S, n) == UNION { [1..k -> S] : k \in 0..n }

OptionFragments == { [options |-> os, rows |-> <<>>] : os \in SeqsUpTo(Options, MaxOpts) }

----------------------------------------------------------------------------
(* extract_dates *)

\* dict.get(key, default) on a decoded JSON object
get(data, key, default) == IF key \in DOMAIN data THEN data[key] ELSE default

\* json.loads(text).get(part, ""): lines 107-108 and the tail of line 162
json_get(t, part) ==
    IF t.json = "invalid" THEN [kind |-> "JSONDecodeError"]
    ELSE IF t.json # "object" THEN [kind |-> "AttributeError"]
    ELSE [kind |-> "return", value |-> get(t.data, part, EmptyHtml)]

\* lines 109-113 with line 112 in place of line 113
select_dates_communal(h) ==
    LET trs == SelectSeq(h.rows, LAMBDA tr : tr.tbody)
        sel == SelectSeq(trs, LAMBDA tr :
                   Len(tr.tds) >= 3 /\ "communal" \in tr.tds[3].marks)
    IN  [i \in 1..Len(sel) |-> strip(sel[i].tds[2].text)]

\* lines 109-113: the rows of soup.select("tbody tr"), filtered and mapped
select_dates(h) ==
    LET trs == SelectSeq(h.rows, LAMBDA tr : tr.tbody)
        sel == SelectSeq(trs, LAMBDA tr :
                   Len(tr.tds) >= 3 /\ "selective" \in tr.tds[3].marks)
    IN  [i \in 1..Len(sel) |-> strip(sel[i].tds[2].text)]

extract_dates_keyerror(t) ==
    IF t.json = "invalid" THEN [kind |-> "JSONDecodeError"]
    ELSE IF t.json # "object" THEN [kind |-> "AttributeError"]
    ELSE IF "ajax/calSearchResults" \notin DOMAIN t.data THEN [kind |-> "KeyError"]
    ELSE [kind |-> "return", value |-> select_dates(t.data["ajax/calSearchResults"])]

\* lines 107-113
extract_dates(t) ==
    LET h == json_get(t, "ajax/calSearchResults")
    IN  IF h.kind # "return" THEN h
        ELSE [kind |-> "return", value |-> select_dates(h.value)]

----------------------------------------------------------------------------
(* Direct calls of extract_dates *)

\* <td> elements: their text and the classes of the elements inside them
Selective == [text |-> <<"sp", "1", "sp">>, marks |-> {"selective"}]
Communal == [text |-> <<"2">>, marks |-> {"communal"}]
Both == [text |-> <<"3", "sp">>, marks |-> {"selective", "communal"}]
Plain == [text |-> <<"sp", "4">>, marks |-> {}]

\* <tr> elements: whether inside a <tbody>, and their <td> elements
Rows ==
    { [tbody |-> TRUE,  tds |-> <<>>],
      [tbody |-> TRUE,  tds |-> <<Plain, Selective>>],
      [tbody |-> TRUE,  tds |-> <<Selective, Plain, Selective>>],
      [tbody |-> TRUE,  tds |-> <<Plain, Selective, Communal>>],
      [tbody |-> TRUE,  tds |-> <<Communal, Communal, Plain>>],
      [tbody |-> TRUE,  tds |-> <<Plain, Both, Both>>],
      [tbody |-> TRUE,  tds |-> <<Plain, Communal, Selective, Plain>>],
      [tbody |-> TRUE,  tds |-> <<Selective, Selective, Plain, Selective>>],
      [tbody |-> FALSE, tds |-> <<Plain, Plain, Selective>>] }

RowFragments(R) == { [options |-> <<>>, rows |-> rs] : rs \in SeqsUpTo(R, MaxRows) }

\* response bodies: not JSON, JSON but no object, objects with and without the key
Bodies(part, fragments, others) ==
    { [json |-> "invalid"], [json |-> "array"] }
    \cup { [json |-> "object", data |-> (part :> f)] : f \in fragments }
    \cup { [json |-> "object", data |-> ("ajax/other" :> f)] : f \in others }

----------------------------------------------------------------------------
(* The caller *)

IdleFetch ==
    /\ args = [district |-> "", street |-> <<>>, house |-> <<>>]
    /\ session = "none"
    /\ log = <<>>
    /\ streets = EmptyHtml
    /\ houses = EmptyHtml
    /\ html3 = Unbound
    /\ returned = <<>>
    /\ script = <<>>

IdlePick == html = EmptyHtml /\ label = <<>> /\ picked = NotCalled
IdleExtract == text = Unbound /\ dates = NotCalled

InitPick ==
    /\ pc = "pick_option"
    /\ html \in OptionFragments
    /\ label \in Labels
    /\ picked = NotCalled
    /\ IdleFetch
    /\ IdleExtract

InitExtract ==
    /\ pc = "extract_dates"
    /\ text \in Bodies("ajax/calSearchResults", RowFragments(Rows), RowFragments(Rows))
    /\ dates = NotCalled
    /\ IdleFetch
    /\ IdlePick

CallPickOption ==
    /\ pc = "pick_option"
    /\ pc' = "done"
    /\ picked' = pick_option(html, label)
    /\ UNCHANGED <<html, label, args, session, log, streets, houses, html3,
                   returned, script, extractVars>>

CallExtractDates ==
    /\ pc = "extract_dates"
    /\ pc' = "done"
    /\ dates' = extract_dates(text)
    /\ UNCHANGED <<text, args, session, log, streets, houses, html3,
                   returned, script, pickVars>>

----------------------------------------------------------------------------
(* fetch_garbage *)

Handlers == <<"GET", "onSelectDistricts", "onSavePublicPlace", "onSearch">>

Statuses == {200, 404, 500}

\* Response.raise_for_status() raises for the 4xx and 5xx statuses
IsErrorStatus(status) == 400 <= status /\ status < 600

\* what the site lists: <option> elements and result rows
Street == [value |-> <<"5">>, text |-> <<"A", "b", "sp", "a">>]
NoValue == [value |-> None, text |-> <<"sp", "b", "sp">>]
NoText == [value |-> <<"7">>, text |-> <<"sp">>]
SelectiveRow == [tbody |-> TRUE, tds |-> <<Plain, Selective, Both>>]
CommunalRow == [tbody |-> TRUE, tds |-> <<Plain, Both, Communal>>]
ShortRow == [tbody |-> TRUE, tds |-> <<Plain, Selective>>]

SiteOptionFragments ==
    { [options |-> os, rows |-> <<>>] :
        os \in { <<>>, <<NoText>>, <<Street>>, <<NoValue, Street>>,
                 <<NoText, Street, NoValue>> } }

SiteResultFragments ==
    { [options |-> <<>>, rows |-> rs] :
        rs \in { <<>>, <<CommunalRow, ShortRow>>, <<SelectiveRow>>,
                 <<SelectiveRow, CommunalRow, SelectiveRow>> } }

\* a fragment that would match and qualify, were it under the requested key
OtherFragment ==
    [options |-> <<[value |-> <<"9">>, text |-> <<"a", "b">>]>>,
     rows |-> <<[tbody |-> TRUE, tds |-> <<Plain, Selective, Selective>>]>>]

SiteBodies(h) ==
    IF h = "GET" THEN { [json |-> "invalid"] }
    ELSE IF h = "onSelectDistricts"
         THEN Bodies("ajax/publicPlaces", SiteOptionFragments, {OtherFragment})
    ELSE IF h = "onSavePublicPlace"
         THEN Bodies("ajax/houseNumbers", SiteOptionFragments, {OtherFragment})
    ELSE Bodies("ajax/calSearchResults", SiteResultFragments, {OtherFragment})

\* the request does not complete (no connection, timeout=15 exceeded), or
\* completes with a status and a body
SiteResponses(h) ==
    { [kind |-> "exception"] }
    \cup { [kind |-> "response", status |-> st, text |-> b] :
             st \in Statuses, b \in SiteBodies(h) }

\* unchanged site state: a handler asked again answers as before
Responses(h) == IF h \in DOMAIN script THEN {script[h]} ELSE SiteResponses(h)

StreetLabels == { <<"a", "b">>, <<"sp">>, <<"b">> }
HouseLabels == { <<"b">>, <<>> }

InitFetch ==
    /\ pc = "fetch_garbage"
    /\ args \in [district : {"1062"}, street : StreetLabels, house : HouseLabels]
    /\ session = "none"
    /\ log = <<>>
    /\ streets = EmptyHtml
    /\ houses = EmptyHtml
    /\ html3 = Unbound
    /\ returned = <<>>
    /\ script = <<>>
    /\ IdlePick
    /\ IdleExtract

\* the exchange of one request, as the session saw it
Exchange(h, data, r) ==
    [handler |-> h, data |-> data, response |-> r, session |-> session]

\* the call ends: the locals are gone, the outcome is with the caller
Leave(outcome, s) ==
    /\ pc' = "done"
    /\ session' = s
    /\ returned' = Append(returned, outcome)
    /\ streets' = EmptyHtml
    /\ houses' = EmptyHtml
    /\ html3' = Unbound

Raise_leak(exc) == Leave(exc, session)

\* an exception leaves the with block of line 156
Raise(exc) == Leave(exc, "closed")

\* lines 159-162 once s.post has come back with r
post(r, part) ==
    IF r.kind = "exception" THEN [kind |-> "ConnectionError"]
    ELSE IF IsErrorStatus(r.status) THEN [kind |-> "HTTPError", status |-> r.status]
    ELSE json_get(r.text, part)

\* lines 115, 156: the call and the new session
Call ==
    /\ pc = "fetch_garbage" \/ (pc = "done" /\ returned # <<>>)
    /\ Len(returned) < MaxCalls
    /\ pc' = "get"
    /\ session' = "open"
    /\ log' = <<>>
    /\ UNCHANGED <<args, streets, houses, html3, returned, script, pickVars, extractVars>>

\* line 157
Get ==
    /\ pc = "get"
    /\ \E r \in Responses("GET") :
         /\ log' = Append(log, Exchange("GET", <<>>, r))
         /\ script' = ("GET" :> r) @@ script
         /\ IF r.kind = "exception"
            THEN Raise([kind |-> "ConnectionError"])
            ELSE /\ pc' = "onSelectDistricts"
                 /\ UNCHANGED <<session, streets, houses, html3, returned>>
    /\ UNCHANGED <<args, pickVars, extractVars>>

\* line 164
PostDistricts ==
    /\ pc = "onSelectDistricts"
    /\ \E r \in Responses("onSelectDistricts") :
         LET res == post(r, "ajax/publicPlaces")
         IN  /\ log' = Append(log, Exchange("onSelectDistricts",
                                   [district |-> args.district], r))
             /\ script' = ("onSelectDistricts" :> r) @@ script
             /\ IF res.kind = "return"
                THEN /\ streets' = res.value
                     /\ pc' = "onSavePublicPlace"
                     /\ UNCHANGED <<session, houses, html3, returned>>
                ELSE Raise(res)
    /\ UNCHANGED <<args, pickVars, extractVars>>

\* line 165
PostPublicPlace ==
    /\ pc = "onSavePublicPlace"
    /\ LET p == pick_option(streets, args.street)
       IN  IF p.kind # "return"
           THEN Raise(p) /\ UNCHANGED <<log, script>>
           ELSE \E r \in Responses("onSavePublicPlace") :
                  LET res == post(r, "ajax/houseNumbers")
                  IN  /\ log' = Append(log, Exchange("onSavePublicPlace",
                                  [district |-> args.district, publicPlace |-> p.value], r))
                      /\ script' = ("onSavePublicPlace" :> r) @@ script
                      /\ IF res.kind = "return"
                         THEN /\ houses' = res.value
                              /\ pc' = "onSearch"
                              /\ UNCHANGED <<session, streets, html3, returned>>
                         ELSE Raise(res)
    /\ UNCHANGED <<args, pickVars, extractVars>>

\* lines 166-169
PostSearch ==
    /\ pc = "onSearch"
    /\ LET p == pick_option(houses, args.house)
       IN  IF p.kind # "return"
           THEN Raise(p) /\ UNCHANGED <<log, script>>
           ELSE \E r \in Responses("onSearch") :
                  /\ log' = Append(log, Exchange("onSearch",
                                  [houseNumber |-> p.value], r))
                  /\ script' = ("onSearch" :> r) @@ script
                  /\ IF r.kind = "exception"
                     THEN Raise([kind |-> "ConnectionError"])
                     ELSE /\ html3' = r.text
                          /\ pc' = "return"
                          /\ UNCHANGED <<session, streets, houses, returned>>
    /\ UNCHANGED <<args, pickVars, extractVars>>

Return_accumulating ==
    /\ pc = "return"
    /\ LET res == extract_dates(html3)
           old == IF returned # <<>> /\ returned[Len(returned)].kind = "return"
                  THEN returned[Len(returned)].value ELSE <<>>
       IN  IF res.kind = "return"
           THEN Leave([kind |-> "return", value |-> old \o res.value], "closed")
           ELSE Raise(res)
    /\ UNCHANGED <<args, log, script, pickVars, extractVars>>

\* line 170
Return ==
    /\ pc = "return"
    /\ LET res == extract_dates(html3)
       IN  IF res.kind = "return" THEN Leave(res, "closed") ELSE Raise(res)
    /\ UNCHANGED <<args, log, script, pickVars, extractVars>>

----------------------------------------------------------------------------

Init == InitFetch \/ InitPick \/ InitExtract

Next ==
    \/ Call
    \/ Get
    \/ PostDistricts
    \/ PostPublicPlace
    \/ PostSearch
    \/ Return
    \/ CallPickOption
    \/ CallExtractDates

Spec == Init /\ [][Next]_vars

----------------------------------------------------------------------------
(* What the properties speak about, stated apart from the code's loop *)

Last(q) == q[Len(q)]
Least(S) == CHOOSE i \in S : \A j \in S : i <= j

\* an option as the matcher decodes it
OptText(o) == strip(o.text)
OptValue(o) == IF o.value = None THEN <<>> ELSE strip(o.value)
Effective(o) == IF OptValue(o) = <<>> THEN OptText(o) ELSE OptValue(o)

\* lowercased, en-dash and em-dash folded to "-", trimmed
FoldChar(c) ==
    IF c \in {"en", "em"} THEN "-"
    ELSE IF c = "A" THEN "a" ELSE IF c = "B" THEN "b" ELSE c
Normalized(s) == strip([i \in 1..Len(s) |-> FoldChar(s[i])])
Blank(s) == \A i \in 1..Len(s) : s[i] \in Whitespace

WithText(h) == { i \in 1..Len(h.options) : OptText(h.options[i]) # <<>> }
Verbatim(h, lab) == { i \in WithText(h) : OptText(h.options[i]) = lab }
Matching(h, lab) ==
    { i \in WithText(h) :
        \/ OptText(h.options[i]) = lab
        \/ lower(OptText(h.options[i])) = lower(lab)
        \/ In(Normalized(lab), Normalized(OptText(h.options[i]))) }

PickDone == pc = "done" /\ picked # NotCalled
ExtractDone == pc = "done" /\ dates # NotCalled
FetchDone == pc = "done" /\ returned # <<>>

\* the fragment the i-th exchange of the running call carried under a key
Listed(i, part) ==
    LET r == log[i].response
    IN  IF r.kind = "response" /\ r.text.json = "object" /\ part \in DOMAIN r.text.data
        THEN r.text.data[part] ELSE EmptyHtml
Answered(i) ==
    /\ i <= Len(log)
    /\ log[i].response.kind = "response"
    /\ ~IsErrorStatus(log[i].response.status)
    /\ log[i].response.text.json = "object"
ErrorStatus(r) == r.kind = "response" /\ IsErrorStatus(r.status)
Failed(r) == r.kind = "exception" \/ ErrorStatus(r)

Qualifying(rows) ==
    { i \in 1..Len(rows) :
        /\ rows[i].tbody
        /\ Len(rows[i].tds) >= 3
        /\ "selective" \in rows[i].tds[3].marks }

----------------------------------------------------------------------------
(* Properties *)

\* C1: once any response of a call has carried an error status, the call
\* does not return a date list.
C1_ErrorStatusAborts ==
    (FetchDone /\ \E i \in 1..Len(log) : ErrorStatus(log[i].response))
        => Last(returned).kind # "return"

\* C2: a label that is the trimmed text of some option verbatim yields the
\* value (or, the value being empty, the text) of an option with that text.
C2_VerbatimLabelWins ==
    (PickDone /\ Verbatim(html, label) # {})
        => /\ picked.kind = "return"
           /\ \E i \in Verbatim(html, label) : picked.value = Effective(html.options[i])

\* C3: the requests go out in the fixed order, each at most once; nothing is
\* sent after a failed request or an unmatched street or house label, and
\* then no date list is returned.
C3_FixedOrderFailFast ==
    /\ Len(log) <= Len(Handlers)
    /\ \A i \in 1..Len(log) : log[i].handler = Handlers[i]
    /\ \A i \in 1..(Len(log) - 1) : ~Failed(log[i].response)
    /\ Len(log) >= 3 => Matching(Listed(2, "ajax/publicPlaces"), args.street) # {}
    /\ Len(log) >= 4 => Matching(Listed(3, "ajax/houseNumbers"), args.house) # {}
    /\ (FetchDone /\ \E i \in 1..Len(log) : Failed(log[i].response))
           => Last(returned).kind # "return"

\* C4: every finished call has closed its session, whatever the outcome,
\* every request was made on the open session, and the session is open as
\* long as the call runs.
C4_SessionReleased ==
    /\ FetchDone => session = "closed"
    /\ \A i \in 1..Len(log) : log[i].session = "open"
    /\ pc \in {"get", "onSelectDistricts", "onSavePublicPlace", "onSearch", "return"}
           => session = "open"

C4_Witness ==
    /\ FetchDone
    /\ Last(returned).kind = "RuntimeError"
    /\ Len(log) = 3
    /\ session = "closed"

\* C5: when no option matches, the matcher raises the lookup error, which
\* carries the label and the (value, text) pairs of all options with
\* non-empty text, in document order.
C5_LookupErrorListsCandidates ==
    (PickDone /\ Matching(html, label) = {})
        => /\ picked.kind = "RuntimeError"
           /\ picked.label = label
           /\ Len(picked.labs) = Cardinality(WithText(html))
           /\ \A i \in WithText(html) :
                picked.labs[Cardinality({j \in WithText(html) : j <= i})]
                    = <<OptValue(html.options[i]), OptText(html.options[i])>>

C5_Witness ==
    /\ PickDone
    /\ picked.kind = "RuntimeError"
    /\ Len(picked.labs) = 2
    /\ picked.labs[1] # picked.labs[2]

\* C6: the matcher returns exactly when some option with non-empty text
\* satisfies one of the three rules, and then the value (or text) of the
\* first such option.
C6_FirstMatchInDocumentOrder ==
    PickDone =>
        IF Matching(html, label) = {}
        THEN picked.kind # "return"
        ELSE picked = [kind |-> "return",
                       value |-> Effective(html.options[Least(Matching(html, label))])]

C6_Witness ==
    /\ PickDone
    /\ label = <<"a", "-", "b">>
    /\ Len(html.options) = 2
    /\ html.options[1].text = <<"b">>
    /\ html.options[2] = [value |-> None, text |-> <<"a", "en", "b">>]
    /\ picked = [kind |-> "return", value |-> <<"a", "en", "b">>]

\* C7: the extractor returns the trimmed second-column texts of exactly the
\* table-body rows with at least three columns and a selective marker in
\* the third, in document order.
C7_SelectiveRowsInOrder ==
    (ExtractDone /\ text.json = "object" /\ "ajax/calSearchResults" \in DOMAIN text.data)
        => LET rows == text.data["ajax/calSearchResults"].rows
               Q == Qualifying(rows)
           IN  /\ dates.kind = "return"
               /\ Len(dates.value) = Cardinality(Q)
               /\ \A i \in Q :
                    dates.value[Cardinality({j \in Q : j <= i})] = strip(rows[i].tds[2].text)

C7_Witness ==
    /\ ExtractDone
    /\ text.json = "object"
    /\ "ajax/calSearchResults" \in DOMAIN text.data
    /\ Len(text.data["ajax/calSearchResults"].rows) = 3
    /\ Qualifying(text.data["ajax/calSearchResults"].rows) = {1, 3}
    /\ dates = [kind |-> "return", value |-> << <<"4">>, <<"2">> >>]

\* C8: a JSON object without the results key gives the empty list, a body
\* that is not JSON gives a decoding error, from extract_dates and from
\* fetch_garbage alike.
C8_MissingKeyEmptyInvalidRaises ==
    /\ ExtractDone =>
         /\ (text.json = "object" /\ "ajax/calSearchResults" \notin DOMAIN text.data)
                => dates = [kind |-> "return", value |-> <<>>]
         /\ text.json = "invalid" => dates = [kind |-> "JSONDecodeError"]
    /\ (FetchDone /\ Len(log) = 4 /\ log[4].response.kind = "response") =>
         LET body == log[4].response.text
         IN  /\ (body.json = "object" /\ "ajax/calSearchResults" \notin DOMAIN body.data)
                    => Last(returned) = [kind |-> "return", value |-> <<>>]
             /\ body.json = "invalid" => Last(returned) = [kind |-> "JSONDecodeError"]

C8_Witness ==
    /\ FetchDone
    /\ Len(log) = 4
    /\ log[4].response.kind = "response"
    /\ log[4].response.text.json = "object"
    /\ "ajax/calSearchResults" \notin DOMAIN log[4].response.text.data
    /\ Last(returned) = [kind |-> "return", value |-> <<>>]

\* C9: calls with the same triple that receive the same responses end in
\* the same outcome.
C9_SameResponsesSameOutcome ==
    \A i, j \in 1..Len(returned) : returned[i] = returned[j]

C9_Witness ==
    /\ Len(returned) = 2
    /\ pc = "done"
    /\ returned[1].kind = "return"
    /\ Len(returned[1].value) = 2
    /\ returned[2] = returned[1]

\* C10: a label that is blank matches the first option with non-empty text,
\* and the lookup error is raised only if there is none; fetch_garbage then
\* posts that option for a blank street or house label.
C10_BlankLabelTakesFirstOption ==
    /\ (PickDone /\ Blank(label)) =>
         IF WithText(html) = {}
         THEN picked.kind = "RuntimeError"
         ELSE picked = [kind |-> "return",
                        value |-> Effective(html.options[Least(WithText(html))])]
    /\ (Blank(args.street) /\ Answered(2) /\ pc # "onSavePublicPlace") =>
         LET h == Listed(2, "ajax/publicPlaces")
         IN  IF WithText(h) = {}
             THEN FetchDone /\ Len(log) = 2 /\ Last(returned).kind = "RuntimeError"
             ELSE /\ Len(log) >= 3
                  /\ log[3].data.publicPlace = Effective(h.options[Least(WithText(h))])
    /\ (Blank(args.house) /\ Answered(3) /\ pc # "onSearch") =>
         LET h == Listed(3, "ajax/houseNumbers")
         IN  IF WithText(h) = {}
             THEN FetchDone /\ Len(log) = 3 /\ Last(returned).kind = "RuntimeError"
             ELSE /\ Len(log) >= 4
                  /\ log[4].data.houseNumber = Effective(h.options[Least(WithText(h))])

C10_Witness ==
    /\ Blank(args.street)
    /\ args.street # <<>>
    /\ Len(log) >= 3
    /\ Listed(2, "ajax/publicPlaces").options = <<NoText, Street, NoValue>>
    /\ log[3].data.publicPlace = <<"5">>

====
